---------------------------- MODULE Spec2Model ----------------------------
(***************************************************************************)
(* Model of the ceph nagios plugin in its two revisions:                   *)
(*   cephnagios/check_ceph_health.py  (__version__ 0.5.1, python3)         *)
(*   src/check_ceph_health.py         (__version__ 0.2,   python 2)        *)
(* One invocation of main() is one behaviour: parse the arguments, build   *)
(* the command vector, run the subprocess, classify its output, exit.      *)
(*                                                                         *)
(* A python str is a sequence of atoms.  An atom is an indivisible piece   *)
(* of text; the atoms " " (whitespace) and "_" are the separators that     *)
(* str.split() and str.split('_') cut on.  str.find is a search for a      *)
(* contiguous subsequence.  A command vector is a sequence of strs.        *)
(*                                                                         *)
(* cephnagios/cli.py declares the parser of 0.2 again and a main() that    *)
(* stops at an undefined __version__; it is not modelled.                  *)
(***************************************************************************)
EXTENDS Integers, Sequences, FiniteSets, TLC

(* ------------------------------ bounds -------------------------------- *)
\* largest number of whitespace-separated words in an option value
MaxWords == 2
\* largest number of '_'-separated parts in a health-status string
MaxParts == 3
\* largest number of chunks (markers, noise) in a text output of the tool
MaxChunks == 2

(* ------------------------- program constants -------------------------- *)
STATUS_OK == 0
STATUS_WARNING == 1
STATUS_ERROR == 2
STATUS_UNKNOWN == 3
CEPH_COMMAND == <<"/usr/bin/ceph">>
CEPH_CONFIG == <<"/etc/ceph/ceph.conf">>
\* exit status of the interpreter after an uncaught exception
EXIT_TRACEBACK == 1
\* exit status of argparse's parser.error()
EXIT_USAGE == 2
\* sys.exit(None)
EXIT_NONE == 0
\* the invocation has not exited yet
RUNNING == 0 - 1

V051 == "0.5.1"
V02 == "0.2"

(* --------------------------- python strings --------------------------- *)
WS == " "
US == "_"

\* s.find(m) != -1
Find(s, m) ==
    \E i \in 1..(Len(s) - Len(m) + 1) : SubSeq(s, i, i + Len(m) - 1) = m

\* s.split(sep): every piece between separators, empty pieces kept
RECURSIVE SplitOn(_, _)
SplitOn(s, sep) ==
    IF s = <<>> THEN << <<>> >>
    ELSE LET rest == SplitOn(Tail(s), sep)
         IN  IF Head(s) = sep THEN << <<>> >> \o rest
             ELSE << <<Head(s)>> \o Head(rest) >> \o Tail(rest)

NonEmpty(p) == p # <<>>

\* s.split(): cut on whitespace, empty pieces dropped
Split(s) == SelectSeq(SplitOn(s, WS), NonEmpty)

RECURSIVE LStrip(_)
LStrip(s) == IF s # <<>> /\ Head(s) = WS THEN LStrip(Tail(s)) ELSE s

RECURSIVE RStrip(_)
RStrip(s) ==
    IF s # <<>> /\ s[Len(s)] = WS THEN RStrip(SubSeq(s, 1, Len(s) - 1)) ELSE s

\* s.strip()
Strip(s) == RStrip(LStrip(s))

\* 'prefix{0}'.format(v)
Format(prefix, v) == prefix \o v

\* Optional values: None is <<>>, a value v is <<v>>
None == <<>>
Some(v) == <<v>>
IsNone(o) == o = <<>>
Val(o) == o[1]


(* ------------------------------ inputs -------------------------------- *)
\* global options of both parsers (dest names of the 0.5.1 parser; the 0.2
\* parser calls the client id 'monid')
OptNames == {"exe", "conf", "monaddress", "clientid", "name", "keyring"}

\* first word of the value given for each option
OptWord(o) ==
    CASE o = "exe" -> "/opt/ceph"
      [] o = "conf" -> "/srv/ceph.conf"
      [] o = "monaddress" -> "10.0.0.1:6789"
      [] o = "clientid" -> "nagios"
      [] o = "name" -> "client.nagios"
      [] o = "keyring" -> "/srv/keyring"
      [] OTHER -> "mon01"

FillerWords == <<"two", "three", "four", "five">>

\* k further words, each after a blank
RECURSIVE MoreWords(_)
MoreWords(k) == IF k = 0 THEN <<>> ELSE MoreWords(k - 1) \o <<WS, FillerWords[k]>>

\* a value of n words for option o; n = 0 is the empty string
Value(o, n) == IF n = 0 THEN <<>> ELSE <<OptWord(o)>> \o MoreWords(n - 1)

Groups == {"common", "mon", "osd", "mds"}

\* the flags of a subparser: the attributes it sets on the namespace
GroupFlags(v, g) ==
    CASE g = "common" -> {"status", "health", "quorum", "df"}
      [] g = "mon" -> IF v = V051 THEN {"monhealth", "monstatus", "monstat"}
                      ELSE {"mon", "monstat"}
      [] g = "osd" -> IF v = V051 THEN {"stat", "tree"} ELSE {"osdstat", "osdtree"}
      [] g = "mds" -> {"mdsstat"}
      [] OTHER -> {}

\* the flag sets a command line can name after subparser g: none, one, or two
\* (two are what the mutually exclusive group rejects)
FlagSets(v, g) == {f \in SUBSET GroupFlags(v, g) : Cardinality(f) <= 2}

\* command lines: the options given (each with a value of n words), the
\* subparser named, the flags given after it, the value of --monhealth
ArgvsOf(v, g, f) ==
    { [opts |-> [o \in OptNames |-> IF o \in given THEN Some(Value(o, n)) ELSE None],
       group |-> g, flags |-> f,
       monhealth |-> IF "monhealth" \in f THEN Value("monhealth", m) ELSE <<>>] :
         given \in SUBSET OptNames, n \in 0..MaxWords,
         m \in IF "monhealth" \in f THEN 0..MaxWords ELSE {0} }

Argvs(v) ==
    UNION { UNION { ArgvsOf(v, g, f) : f \in FlagSets(v, g) } : g \in Groups \cup {"none"} }

OptionsGiven(a) == \E o \in OptNames : ~IsNone(a.opts[o])

\* len(sys.argv[1:])
nargs(a) == IF OptionsGiven(a) \/ a.group # "none" THEN 1 ELSE 0

\* the files of the machine: either the configuration files exist or none does
ConfPaths == {CEPH_CONFIG} \cup {Value("conf", n) : n \in 1..MaxWords}

FileSystems == {{}, ConfPaths}

(* --------------------- what the external tool prints ------------------- *)
HEALTH_OK == <<"HEALTH", US, "OK">>
HEALTH_WARN == <<"HEALTH", US, "WARN">>
HEALTH_ERR == <<"HEALTH", US, "ERR">>
ObjectNotFound == <<"ObjectNotFound">>
Noise == <<"too many PGs">>

Chunks == {HEALTH_OK, HEALTH_WARN, HEALTH_ERR, ObjectNotFound, Noise}

\* texts of at most k chunks, a blank between two chunks
RECURSIVE Texts(_)
Texts(k) ==
    IF k = 0 THEN {<<>>}
    ELSE Texts(k - 1) \cup Chunks
           \cup {t \o <<WS>> \o c : t \in Texts(k - 1) \ {<<>>}, c \in Chunks}

\* the JSON document {"health": {"status": "<status>"}} is the atom JsonOpen,
\* the atoms of <status>, the atom JsonClose
JsonOpen == "{'health':{'status':'"
JsonClose == "'}}"
JsonEmptyObject == "{}"
JsonArray == "[]"

PartWords == <<"HEALTH", "MON", "QUORUM", "PG", "OSD">>
Suffixes == {"OK", "WARNING", "ERROR", "UNKNOWN", "WARN", "ERR"}

\* k leading parts, each followed by an underscore
RECURSIVE Leading(_)
Leading(k) == IF k = 0 THEN <<>> ELSE Leading(k - 1) \o <<PartWords[k], US>>

\* health-status strings of n parts: n = 0 is the empty string
Statuses(n) == IF n = 0 THEN {<<>>} ELSE {Leading(n - 1) \o <<suf>> : suf \in Suffixes}

JsonDocs ==
    {<<JsonOpen>> \o st \o <<JsonClose>> : st \in UNION {Statuses(n) : n \in 0..MaxParts}}
      \cup {<<JsonEmptyObject>>, <<JsonArray>>}

StdErrs == {<<>>, <<"connection refused">>, ObjectNotFound}

\* what one run of the tool does: whether it could be spawned, its exit
\* status, what it wrote to its stdout and to its stderr
Outcome(sp, rc, o, e) == [spawned |-> sp, returncode |-> rc, stdout |-> o, stderr |-> e]

SpawnFailure == Outcome(FALSE, 0, <<>>, <<>>)

AllOutcomes ==
    {SpawnFailure} \cup
    {Outcome(TRUE, rc, o, e) : rc \in {0, 1}, o \in Texts(MaxChunks) \cup JsonDocs, e \in StdErrs}

FewOutcomes ==
    {SpawnFailure, Outcome(TRUE, 0, HEALTH_OK, <<>>), Outcome(TRUE, 0, <<>>, <<>>),
     Outcome(TRUE, 1, <<>>, <<"connection refused">>)}

\* the runs explored for a command line: every outcome for a command line
\* without global options, a few for the others
Outcomes(a) == IF OptionsGiven(a) THEN FewOutcomes ELSE AllOutcomes

(* ------------------------------- state -------------------------------- *)
VARIABLES
    variant,     \* which revision runs
    argv,        \* sys.argv[1:]
    fs,          \* the files that exist
    pc,          \* where main() is
    arguments,   \* the parsed namespace
    nagiosmessage, \* ccmd._nagiosmessage
    cephcmd,     \* the command vector
    runs,        \* the calls of subprocess.run / subprocess.Popen so far
    proc,        \* what the subprocess did (None before it ran)
    result,      \* the captured output
    check,       \* the (message, code) the classifier produced (None if none)
    stdout,      \* the lines printed to sys.stdout
    stderr,      \* the lines printed to sys.stderr
    raised,      \* the uncaught exception, "" if none
    exitcode     \* the exit status of the process

vars == <<variant, argv, fs, pc, arguments, nagiosmessage, cephcmd, runs, proc,
          result, check, stdout, stderr, raised, exitcode>>

NoArguments ==
    [exe |-> None, conf |-> None, monaddress |-> None, clientid |-> None, name |-> None,
     keyring |-> None, group |-> "none", flags |-> {}, monid |-> None]

Init ==
    /\ variant \in {V051, V02}
    /\ argv \in Argvs(variant)
    /\ fs \in FileSystems
    /\ pc = "start"
    /\ arguments = NoArguments
    /\ nagiosmessage = <<>>
    /\ cephcmd = <<>>
    /\ runs = 0
    /\ proc = None
    /\ result = <<>>
    /\ check = None
    /\ stdout = <<>>
    /\ stderr = <<>>
    /\ raised = ""
    /\ exitcode = RUNNING

(* ------------------------------ exits --------------------------------- *)
\* sys.exit(code) after printing `o` to stdout and `e` to stderr
Exit(code, o, e) ==
    /\ pc' = "exit"
    /\ exitcode' = code
    /\ stdout' = stdout \o o
    /\ stderr' = stderr \o e
    /\ raised' = ""

\* an exception nobody catches: the interpreter prints the traceback and
\* exits with status 1
Traceback(exc, o, e) ==
    /\ pc' = "exit"
    /\ exitcode' = EXIT_TRACEBACK
    /\ stdout' = stdout \o o
    /\ stderr' = stderr \o e \o << <<"Traceback (most recent call last): ", exc>> >>
    /\ raised' = exc

(* --------------------------- argument model --------------------------- *)
\* parser.parse_args() of 0.5.1: exe and conf have defaults, the other global
\* options default to None; the subparser named sets its flags as attributes;
\* --monhealth stores its value as monid
parse_args(a) ==
    [exe |-> IF IsNone(a.opts["exe"]) THEN Some(CEPH_COMMAND) ELSE a.opts["exe"],
     conf |-> IF IsNone(a.opts["conf"]) THEN Some(CEPH_CONFIG) ELSE a.opts["conf"],
     monaddress |-> a.opts["monaddress"],
     clientid |-> a.opts["clientid"],
     name |-> a.opts["name"],
     keyring |-> a.opts["keyring"],
     group |-> a.group,
     flags |-> a.flags,
     monid |-> IF "monhealth" \in a.flags THEN Some(a.monhealth) ELSE None]

\* parser.parse_args() of 0.2: no option has a default
parse_args_02(a) ==
    [exe |-> a.opts["exe"],
     conf |-> a.opts["conf"],
     monaddress |-> a.opts["monaddress"],
     clientid |-> a.opts["clientid"],
     name |-> a.opts["name"],
     keyring |-> a.opts["keyring"],
     group |-> a.group,
     flags |-> a.flags,
     monid |-> None]

\* hasattr(arguments, attr)
hasattr(v, ns, attr) == attr \in GroupFlags(v, ns.group)

\* getattr(cliargs, 'monid', None) of 0.5.1
monid_of(ns) == ns.monid

\* argparse rejects two flags of one mutually exclusive group
MutuallyExclusive(a) == Cardinality(a.flags) > 1

Help == <<"usage: check_ceph_health [-h] ...">>
UsageError == <<"usage: check_ceph_health: error">>
NoValidCommand == <<"No valid command found">>

(* ------------------------ command builder, 0.5.1 ---------------------- *)
\* what a build_*_command call gives: a list, False, or an exception; msg is
\* what it left in self._nagiosmessage
List(c) == [ret |-> "list", cmd |-> c, msg |-> <<>>, exc |-> ""]
False(m) == [ret |-> "False", cmd |-> <<>>, msg |-> m, exc |-> ""]
Raise(x, m) == [ret |-> "raise", cmd |-> <<>>, msg |-> m, exc |-> x]

NoSuchFile(path) == <<"ERROR: ", "No such file - ">> \o path

\* basecmd.extend('<flag> {0}'.format(value).split()) if value is not None
OptTokens(flag, o) == IF IsNone(o) THEN <<>> ELSE Split(Format(<<flag, WS>>, Val(o)))

build_base_command(ns, files) ==
    IF ~IsNone(ns.conf) /\ Val(ns.conf) \notin files
    THEN False(NoSuchFile(Val(ns.conf)))
    ELSE List(<<Val(ns.exe)>>
                \o OptTokens("-c", ns.conf)
                \o OptTokens("-m", ns.monaddress)
                \o OptTokens("--id", ns.clientid)
                \o OptTokens("--name", ns.name)
                \o OptTokens("--keyring", ns.keyring))

\* cmd.append(x) / cmd.extend(xs) on what build_base_command returned: False
\* has neither method
Extend(r, toks) ==
    IF r.ret = "list" THEN List(r.cmd \o toks) ELSE Raise("AttributeError", r.msg)

build_common_command(ns, files) ==
    LET cmd == build_base_command(ns, files)
    IN  IF cmd.ret # "list" THEN cmd
        ELSE IF "status" \in ns.flags THEN Extend(cmd, << <<"status">> >>)
        ELSE IF "health" \in ns.flags THEN Extend(cmd, << <<"health">> >>)
        ELSE IF "quorum" \in ns.flags THEN Extend(cmd, << <<"quorum_status">> >>)
        ELSE Extend(cmd, << <<"df">> >>)

build_mon_command(ns, files) ==
    LET cmd == build_base_command(ns, files)
    IN  IF ~IsNone(ns.monid) /\ Val(ns.monid) # <<>>
        THEN Extend(cmd, Split(Format(<<"ping", WS, "mon.">>, Val(ns.monid))))
        ELSE IF "monstatus" \in ns.flags THEN Extend(cmd, << <<"mon_status">> >>)
        ELSE IF "monstat" \in ns.flags THEN Extend(cmd, Split(<<"mon", WS, "stat">>))
        ELSE cmd

build_osd_command(ns, files) ==
    LET cmd == Extend(build_base_command(ns, files), << <<"osd">> >>)
    IN  IF cmd.ret # "list" THEN cmd
        ELSE IF "stat" \in ns.flags THEN Extend(cmd, << <<"stat">> >>)
        ELSE Extend(cmd, << <<"tree">> >>)

build_mds_command(ns, files) ==
    Extend(build_base_command(ns, files), Split(<<"mds", WS, "stat">>))

(* ------------------------- command builder, 0.2 ----------------------- *)
\* self._cephexec or CEPH_COMMAND
cephexec_02(ns) == IF IsNone(ns.exe) \/ Val(ns.exe) = <<>> THEN CEPH_COMMAND ELSE Val(ns.exe)

\* self._cephconf or CEPH_CONFIG
cephconf_02(ns) == IF IsNone(ns.conf) \/ Val(ns.conf) = <<>> THEN CEPH_CONFIG ELSE Val(ns.conf)

\* basecmd.append(flag); basecmd.append(value) if value is not None
OptTokens_02(flag, o) == IF IsNone(o) THEN <<>> ELSE << <<flag>>, Val(o) >>

build_base_command_02(ns) ==
    <<cephexec_02(ns)>>
      \o OptTokens_02("-c", Some(cephconf_02(ns)))
      \o OptTokens_02("-m", ns.monaddress)
      \o OptTokens_02("--id", ns.clientid)
      \o OptTokens_02("--name", ns.name)
      \o OptTokens_02("--keyring", ns.keyring)

build_common_command_02(ns) ==
    LET cmd == build_base_command_02(ns)
    IN  IF "status" \in ns.flags THEN cmd \o << <<"status">> >>
        ELSE IF "health" \in ns.flags THEN cmd \o << <<"health">> >>
        ELSE IF "quorum" \in ns.flags THEN cmd \o << <<"quorum_status">> >>
        ELSE cmd \o << <<"df">> >>

(* -------------------------- output interpreter ------------------------ *)
\* json.loads(output): the documents the tool can print are a health report,
\* an empty object and an empty array; any other text is a ValueError
JsonAtoms == {JsonOpen, JsonClose, JsonEmptyObject, JsonArray}

IsHealthDoc(s) ==
    /\ Len(s) >= 2
    /\ s[1] = JsonOpen
    /\ s[Len(s)] = JsonClose
    /\ \A i \in 2..(Len(s) - 1) : s[i] \notin JsonAtoms

json_loads(s) ==
    IF IsHealthDoc(s) THEN [exc |-> "", kind |-> "health", status |-> SubSeq(s, 2, Len(s) - 1)]
    ELSE IF s = <<JsonEmptyObject>> THEN [exc |-> "", kind |-> "object", status |-> <<>>]
    ELSE IF s = <<JsonArray>> THEN [exc |-> "", kind |-> "array", status |-> <<>>]
    ELSE [exc |-> "ValueError", kind |-> "", status |-> <<>>]

\* what compose_nagios_output gives: (nagiosmessage, nagioscode), or an exception
Composed(m, c) == [exc |-> "", msg |-> m, code |-> c]
Raises(x) == [exc |-> x, msg |-> <<>>, code |-> STATUS_UNKNOWN]

\* the code for the part after the underscore
HealthCode(health) ==
    IF health = <<"WARNING">> THEN STATUS_WARNING
    ELSE IF health = <<"ERROR">> THEN STATUS_ERROR
    ELSE IF health = <<"UNKNOWN">> THEN STATUS_UNKNOWN
    ELSE STATUS_OK

\* _, health = healthstatus.split('_') and the branches on health
ComposeHealth(healthstatus) ==
    LET parts == SplitOn(healthstatus, US)
    IN  IF Len(parts) # 2 THEN Raises("ValueError")
        ELSE Composed(healthstatus, HealthCode(parts[2]))

\* ComposeMon without the test for the ObjectNotFound marker
ComposeMon_NoMarker(output, monid) ==
    LET jsondata == json_loads(output)
    IN  IF jsondata.exc # ""
        THEN Composed(<<"Unknown error">>, STATUS_UNKNOWN)
        ELSE IF jsondata.kind = "object" THEN Raises("KeyError")
        ELSE IF jsondata.kind = "array" THEN Raises("TypeError")
        ELSE IF jsondata.status # <<>> THEN ComposeHealth(jsondata.status)
        ELSE Composed(<<"No mons found">>, STATUS_ERROR)

\* the monitor-ping branch
ComposeMon(output, monid) ==
    LET jsondata == json_loads(output)
    IN  IF jsondata.exc # ""
        THEN IF Find(output, ObjectNotFound)
             THEN Composed(monid \o <<" is not a valid ceph mon">>, STATUS_ERROR)
             ELSE Composed(<<"Unknown error">>, STATUS_UNKNOWN)
        ELSE IF jsondata.kind = "object" THEN Raises("KeyError")
        ELSE IF jsondata.kind = "array" THEN Raises("TypeError")
        ELSE IF jsondata.status # <<>> THEN ComposeHealth(jsondata.status)
        ELSE Composed(<<"No mons found">>, STATUS_ERROR)

\* ComposeText with the tests for HEALTH_OK and HEALTH_WARN in the other order
ComposeText_WarnFirst(output) ==
    IF Find(output, HEALTH_WARN) THEN Composed(output, STATUS_WARNING)
    ELSE IF Find(output, HEALTH_OK) THEN Composed(output, STATUS_OK)
    ELSE IF Find(output, HEALTH_ERR) THEN Composed(output, STATUS_ERROR)
    ELSE Composed(<<"OK: ">> \o output, STATUS_OK)

\* the branch scanning the text for the markers
ComposeText(output) ==
    IF Find(output, HEALTH_OK) THEN Composed(output, STATUS_OK)
    ELSE IF Find(output, HEALTH_WARN) THEN Composed(output, STATUS_WARNING)
    ELSE IF Find(output, HEALTH_ERR) THEN Composed(output, STATUS_ERROR)
    ELSE Composed(<<"OK: ">> \o output, STATUS_OK)

compose_nagios_output(output, ns) ==
    IF ~IsNone(monid_of(ns)) THEN ComposeMon(output, Val(monid_of(ns)))
    ELSE ComposeText(output)

\* run_ceph_command of 0.2 from `if output:` on: the message, the stream it is
\* printed to, the code; err is what communicate() gave for stderr
Classified(m, stream, c) == [exc |-> "", msg |-> m, stream |-> stream, code |-> c]

classify_02(output, err, ns, files) ==
    IF output # <<>>
    THEN IF Find(output, HEALTH_OK)
         THEN Classified(<<"HEALTH_OK: ">> \o Strip(output), "stdout", STATUS_OK)
         ELSE IF Find(output, HEALTH_WARN)
         THEN Classified(<<"HEALTH_WARN: ">> \o Strip(output), "stderr", STATUS_WARNING)
         ELSE IF Find(output, HEALTH_ERR)
         THEN Classified(<<"HEALTH_ERROR: ">> \o Strip(output), "stderr", STATUS_ERROR)
         ELSE IF cephconf_02(ns) \notin files
         THEN Classified(NoSuchFile(cephconf_02(ns)), "stderr", STATUS_ERROR)
         ELSE Classified(<<"UNKNOWN: ">> \o Strip(output), "stderr", STATUS_UNKNOWN)
    ELSE IF ~IsNone(err) /\ Val(err) # <<>>
    THEN Classified(<<"ERROR: ">> \o Strip(Val(err)), "stderr", STATUS_ERROR)
    ELSE [exc |-> "UnboundLocalError", msg |-> <<>>, stream |-> "", code |-> STATUS_UNKNOWN]

\* stderr=subprocess.STDOUT: both streams of the tool arrive on one pipe, in
\* either order
Merged(oc) == {oc.stdout \o oc.stderr, oc.stderr \o oc.stdout}

\* communicate() of 0.2 gives None for stderr, which is no pipe
communicate_err_02(oc) == None

\* '{0}'.format(command): the repr of the list
RECURSIVE Joined(_)
Joined(cmd) ==
    IF cmd = <<>> THEN <<>>
    ELSE IF Len(cmd) = 1 THEN cmd[1]
    ELSE cmd[1] \o <<"', '">> \o Joined(Tail(cmd))

Repr(cmd) == <<"['">> \o Joined(cmd) \o <<"']">>

ExecutableNotFound(exe) == <<"ERROR: ", "Ceph executable not found - ">> \o exe
ErrorRunning(output) == <<"ERROR running ceph command: ">> \o output
CephCommandWas(cmd) == <<"Ceph command: ">> \o Repr(cmd)
OSErrorMessage_02(exe) == <<"ERROR: ", "No such file or directory", " - ">> \o exe

(* ------------------------------ main, 0.5.1 --------------------------- *)
\* Dispatch with the common group as the default of the final else
Dispatch_DefaultCommon(ns, files) ==
    IF hasattr(V051, ns, "status") THEN build_common_command(ns, files)
    ELSE IF hasattr(V051, ns, "monstatus") THEN build_mon_command(ns, files)
    ELSE IF hasattr(V051, ns, "stat") THEN build_osd_command(ns, files)
    ELSE IF hasattr(V051, ns, "mdsstat") THEN build_mds_command(ns, files)
    ELSE build_common_command(ns, files)

\* the dispatch of main() on the attributes of the namespace
Dispatch(ns, files) ==
    IF hasattr(V051, ns, "status") THEN build_common_command(ns, files)
    ELSE IF hasattr(V051, ns, "monstatus") THEN build_mon_command(ns, files)
    ELSE IF hasattr(V051, ns, "stat") THEN build_osd_command(ns, files)
    ELSE IF hasattr(V051, ns, "mdsstat") THEN build_mds_command(ns, files)
    ELSE Raise("NoValidCommand", <<>>)

\* main(): _parse_arguments(), the nargs test, parser.parse_args()
ParseArguments ==
    /\ variant = V051
    /\ pc = "start"
    /\ IF nargs(argv) = 0
       THEN Exit(STATUS_ERROR, <<Help>>, <<>>) /\ UNCHANGED arguments
       ELSE IF MutuallyExclusive(argv)
       THEN Exit(EXIT_USAGE, <<>>, <<UsageError>>) /\ UNCHANGED arguments
       ELSE /\ pc' = "parsed"
            /\ arguments' = parse_args(argv)
            /\ UNCHANGED <<stdout, stderr, raised, exitcode>>
    /\ UNCHANGED <<variant, argv, fs, nagiosmessage, cephcmd, runs, proc, result, check>>

\* main(): the dispatch, the build_*_command call, the `if not cephcmd` test
BuildCommand ==
    /\ variant = V051
    /\ pc = "parsed"
    /\ LET built == Dispatch(arguments, fs)
       IN  /\ nagiosmessage' = built.msg
           /\ IF built.exc = "NoValidCommand"
              THEN Exit(STATUS_ERROR, <<NoValidCommand>>, <<>>) /\ UNCHANGED cephcmd
              ELSE IF built.ret = "raise"
              THEN Traceback(built.exc, <<>>, <<>>) /\ UNCHANGED cephcmd
              ELSE IF built.ret = "False"
              THEN Exit(STATUS_ERROR, <<>>, <<built.msg>>) /\ UNCHANGED cephcmd
              ELSE /\ pc' = "built"
                   /\ cephcmd' = built.cmd
                   /\ UNCHANGED <<stdout, stderr, raised, exitcode>>
    /\ UNCHANGED <<variant, argv, fs, arguments, runs, proc, result, check>>

\* RunCephCommand running the command again after a non-zero exit status
RunCephCommand_Retry ==
    /\ variant = V051
    /\ pc = "built"
    /\ runs < 2
    /\ \E oc \in Outcomes(argv) : \E output \in Merged(oc) :
          /\ runs' = runs + 1
          /\ proc' = Some(oc)
          /\ IF ~oc.spawned
             THEN /\ Exit(STATUS_ERROR, <<ExecutableNotFound(Val(arguments.exe))>>, <<>>)
                  /\ UNCHANGED result
             ELSE IF oc.returncode # 0
             THEN UNCHANGED <<pc, result, stdout, stderr, raised, exitcode>>
             ELSE /\ pc' = "ran"
                  /\ result' = output
                  /\ UNCHANGED <<stdout, stderr, raised, exitcode>>
    /\ UNCHANGED <<variant, argv, fs, arguments, nagiosmessage, cephcmd, check>>

\* ccmd.run_ceph_command(cephcmd): subprocess.run(..., check=True), decode
RunCephCommand ==
    /\ variant = V051
    /\ pc = "built"
    /\ \E oc \in Outcomes(argv) : \E output \in Merged(oc) :
          /\ runs' = runs + 1
          /\ proc' = Some(oc)
          /\ IF ~oc.spawned
             THEN /\ Exit(STATUS_ERROR, <<ExecutableNotFound(Val(arguments.exe))>>, <<>>)
                  /\ UNCHANGED result
             ELSE IF oc.returncode # 0
             THEN /\ Exit(STATUS_ERROR, <<ErrorRunning(output), CephCommandWas(cephcmd)>>, <<>>)
                  /\ UNCHANGED result
             ELSE /\ pc' = "ran"
                  /\ result' = output
                  /\ UNCHANGED <<stdout, stderr, raised, exitcode>>
    /\ UNCHANGED <<variant, argv, fs, arguments, nagiosmessage, cephcmd, check>>

\* main(): `if result:` compose_nagios_output, print, `return nagioscode`
ComposeOutput ==
    /\ variant = V051
    /\ pc = "ran"
    /\ IF result # <<>>
       THEN LET r == compose_nagios_output(result, arguments)
            IN  IF r.exc # ""
                THEN Traceback(r.exc, <<>>, <<>>) /\ UNCHANGED check
                ELSE /\ check' = Some([msg |-> r.msg, code |-> r.code])
                     /\ Exit(r.code, <<r.msg>>, <<>>)
       ELSE Traceback("UnboundLocalError", <<>>, <<>>) /\ UNCHANGED check
    /\ UNCHANGED <<variant, argv, fs, arguments, nagiosmessage, cephcmd, runs, proc, result>>

(* ------------------------------- main, 0.2 ---------------------------- *)
\* main(): the nargs test, parser.parse_args(); python 2 argparse demands a
\* subparser
ParseArguments_02 ==
    /\ variant = V02
    /\ pc = "start"
    /\ IF nargs(argv) = 0
       THEN Exit(STATUS_ERROR, <<Help>>, <<>>) /\ UNCHANGED arguments
       ELSE IF MutuallyExclusive(argv) \/ argv.group = "none"
       THEN Exit(EXIT_USAGE, <<>>, <<UsageError>>) /\ UNCHANGED arguments
       ELSE /\ pc' = "parsed"
            /\ arguments' = parse_args_02(argv)
            /\ UNCHANGED <<stdout, stderr, raised, exitcode>>
    /\ UNCHANGED <<variant, argv, fs, nagiosmessage, cephcmd, runs, proc, result, check>>

\* main(): only the common group builds a command, the others pass and main
\* returns None
BuildCommand_02 ==
    /\ variant = V02
    /\ pc = "parsed"
    /\ IF hasattr(V02, arguments, "status")
       THEN /\ pc' = "built"
            /\ cephcmd' = build_common_command_02(arguments)
            /\ UNCHANGED <<stdout, stderr, raised, exitcode>>
       ELSE Exit(EXIT_NONE, <<>>, <<>>) /\ UNCHANGED cephcmd
    /\ UNCHANGED <<variant, argv, fs, arguments, nagiosmessage, runs, proc, result, check>>

\* run_ceph_command: subprocess.Popen and communicate(); after an OSError
\* `output` is unbound where `if output:` reads it
RunCephCommand_02 ==
    /\ variant = V02
    /\ pc = "built"
    /\ \E oc \in Outcomes(argv) : \E output \in Merged(oc) :
          /\ runs' = runs + 1
          /\ proc' = Some(oc)
          /\ IF ~oc.spawned
             THEN /\ Traceback("UnboundLocalError", <<>>,
                               <<OSErrorMessage_02(cephexec_02(arguments))>>)
                  /\ UNCHANGED result
             ELSE /\ pc' = "ran"
                  /\ result' = output
                  /\ UNCHANGED <<stdout, stderr, raised, exitcode>>
    /\ UNCHANGED <<variant, argv, fs, arguments, nagiosmessage, cephcmd, check>>

\* run_ceph_command from `if output:` to `return nagioscode`, which main()
\* drops: main returns None
ClassifyOutput_02 ==
    /\ variant = V02
    /\ pc = "ran"
    /\ LET r == classify_02(result, communicate_err_02(Val(proc)), arguments, fs)
       IN  IF r.exc # ""
           THEN Traceback(r.exc, <<>>, <<>>) /\ UNCHANGED check
           ELSE /\ check' = Some([msg |-> r.msg, code |-> r.code])
                /\ IF r.stream = "stdout"
                   THEN Exit(EXIT_NONE, <<r.msg>>, <<>>)
                   ELSE Exit(EXIT_NONE, <<>>, <<r.msg>>)
    /\ UNCHANGED <<variant, argv, fs, arguments, nagiosmessage, cephcmd, runs, proc, result>>

Next ==
    \/ ParseArguments
    \/ BuildCommand
    \/ RunCephCommand
    \/ ComposeOutput
    \/ ParseArguments_02
    \/ BuildCommand_02
    \/ RunCephCommand_02
    \/ ClassifyOutput_02

Spec == Init /\ [][Next]_vars

(* ------------------------------- claims ------------------------------- *)
Exited == pc = "exit"

\* every line the invocation printed, on either stream
Printed == stdout \o stderr

\* some printed line contains the text m
Carries(lines, m) == \E i \in 1..Len(lines) : Find(lines[i], m)

\* some printed line is exactly the text m
Prints(lines, m) == \E i \in 1..Len(lines) : lines[i] = m

\* the command line selected exactly one check kind and was parsed
KindSelected == arguments.group \in Groups /\ Cardinality(arguments.flags) = 1

\* a subprocess was spawned
ToolSpawned == ~IsNone(proc) /\ Val(proc).spawned

\* the tool was spawned and exited with status 0
ToolSucceeded == ~IsNone(proc) /\ Val(proc).spawned /\ Val(proc).returncode = 0

\* C1: for every check kind, when the configured config file does not exist
\* the invocation of revision 0.5.1 ends CRITICAL (exit code 2) with a message
\* carrying "No such file - <path>", and never calls the subprocess.
C1_MissingConfigIsCritical ==
    (variant = V051 /\ Exited /\ KindSelected /\ Val(arguments.conf) \notin fs)
      => /\ exitcode = STATUS_ERROR
         /\ Carries(Printed, <<"No such file - ">> \o Val(arguments.conf))
         /\ runs = 0

\* C2: when the command line selects no check kind (a subparser without any of
\* its flags, or no subparser), revision 0.5.1 never calls the subprocess and
\* the invocation fails (exits with a status other than OK).
C2_NoKindFailsBeforeSpawn ==
    (variant = V051 /\ argv.flags = {})
      => /\ ~ToolSpawned
         /\ Exited => exitcode # STATUS_OK

\* the part of a health status after its last underscore
TrailingSuffix(st) == LET parts == SplitOn(st, US) IN parts[Len(parts)]

HasSuffix(st) == Len(SplitOn(st, US)) >= 2

\* the mapping the claim gives for the suffixes it names
ClaimedSuffixCode(suf) ==
    CASE suf = <<"OK">> -> STATUS_OK
      [] suf = <<"WARNING">> -> STATUS_WARNING
      [] suf = <<"ERROR">> -> STATUS_ERROR
      [] suf = <<"UNKNOWN">> -> STATUS_UNKNOWN

NamedSuffixes == {<<"OK">>, <<"WARNING">>, <<"ERROR">>, <<"UNKNOWN">>}

\* a monitor-ping run whose output parsed as a health report
MonPingParsed ==
    /\ variant = V051
    /\ Exited
    /\ ~IsNone(arguments.monid)
    /\ ToolSucceeded
    /\ IsHealthDoc(result)

\* C3: with a monitor-ping target and output that parses as JSON, the result
\* code is the one mapped from the trailing suffix of the health status
\* (OK, WARNING, ERROR -> CRITICAL, UNKNOWN) and the message is the raw status;
\* an empty status gives CRITICAL "No mons found".
C3_MonPingSuffixDecides ==
    MonPingParsed =>
      LET st == SubSeq(result, 2, Len(result) - 1)
      IN  IF st = <<>>
          THEN check = Some([msg |-> <<"No mons found">>, code |-> STATUS_ERROR])
          ELSE (HasSuffix(st) /\ TrailingSuffix(st) \in NamedSuffixes)
                 => check = Some([msg |-> st, code |-> ClaimedSuffixCode(TrailingSuffix(st))])

\* C4: with a monitor-ping target and stdout {"health":{"status":"HEALTH_WARN"}}
\* the result is WARNING (exit code 1) with message "HEALTH_WARN".
C4_HealthWarnIsWarning ==
    (MonPingParsed /\ Val(proc).stdout = <<JsonOpen>> \o HEALTH_WARN \o <<JsonClose>>
       /\ Val(proc).stderr = <<>>)
      => /\ check = Some([msg |-> HEALTH_WARN, code |-> STATUS_WARNING])
         /\ exitcode = STATUS_WARNING

\* C5: when the tool ran, wrote nothing to stdout and something to stderr, the
\* invocation is CRITICAL (exit code 2) and prints "ERROR: <stderr>".
C5_StderrOnlyIsCritical ==
    (Exited /\ ToolSucceeded /\ Val(proc).stdout = <<>> /\ Val(proc).stderr # <<>>)
      => /\ exitcode = STATUS_ERROR
         /\ Prints(Printed, <<"ERROR: ">> \o Val(proc).stderr)

\* C6: when the tool ran and wrote nothing to stdout nor to stderr, the
\* invocation reports CRITICAL: it exits with code 2, and not by an exception.
C6_SilentToolIsCritical ==
    (Exited /\ ToolSucceeded /\ Val(proc).stdout = <<>> /\ Val(proc).stderr = <<>>)
      => /\ exitcode = STATUS_ERROR
         /\ raised = ""

\* C7: an invocation that ended has an exit code in {0, 1, 2, 3}, and when the
\* classifier produced a result the exit code is that result's status code.
C7_ExitCodeIsResultCode ==
    Exited => /\ exitcode \in {STATUS_OK, STATUS_WARNING, STATUS_ERROR, STATUS_UNKNOWN}
              /\ ~IsNone(check) => exitcode = Val(check).code

\* a run without monitor-ping target whose non-empty output was classified
TextRun == Exited /\ result # <<>> /\ IsNone(arguments.monid)

\* the classification the claim gives
ClaimedTextResult(output) ==
    IF Find(output, HEALTH_OK) THEN [msg |-> output, code |-> STATUS_OK]
    ELSE IF Find(output, HEALTH_WARN) THEN [msg |-> output, code |-> STATUS_WARNING]
    ELSE IF Find(output, HEALTH_ERR) THEN [msg |-> output, code |-> STATUS_ERROR]
    ELSE [msg |-> <<"OK: ">> \o output, code |-> STATUS_OK]

\* the configuration in effect: revision 0.2 replaces a missing or empty exe
\* and conf by the defaults, 0.5.1 has the defaults in the namespace
Effective(o, default) ==
    IF IsNone(o) \/ (variant = V02 /\ Val(o) = <<>>) THEN default ELSE Val(o)

\* the classification of revision 0.2: the same priority and codes for the
\* markers, the marker's label before the stripped output, and output without
\* marker UNKNOWN (CRITICAL when the configuration file is missing)
Text02Result(output) ==
    IF Find(output, HEALTH_OK)
    THEN [msg |-> <<"HEALTH_OK: ">> \o Strip(output), code |-> STATUS_OK]
    ELSE IF Find(output, HEALTH_WARN)
    THEN [msg |-> <<"HEALTH_WARN: ">> \o Strip(output), code |-> STATUS_WARNING]
    ELSE IF Find(output, HEALTH_ERR)
    THEN [msg |-> <<"HEALTH_ERROR: ">> \o Strip(output), code |-> STATUS_ERROR]
    ELSE IF Effective(arguments.conf, CEPH_CONFIG) \in fs
    THEN [msg |-> <<"UNKNOWN: ">> \o Strip(output), code |-> STATUS_UNKNOWN]
    ELSE [msg |-> <<"ERROR: ", "No such file - ">> \o Effective(arguments.conf, CEPH_CONFIG),
          code |-> STATUS_ERROR]

\* C8 as stated: without monitor-ping target, non-empty output is classified
\* HEALTH_OK -> OK, else HEALTH_WARN -> WARNING, else HEALTH_ERR -> CRITICAL with
\* the output as message, else OK with "OK: <output>", in both revisions.
C8_TextPriorityAsClaimed == TextRun => check = Some(ClaimedTextResult(result))

\* C8 amended: the priority HEALTH_OK, HEALTH_WARN, HEALTH_ERR and their codes
\* hold in both revisions; the message being the output and the default
\* OK "OK: <output>" hold in 0.5.1, while 0.2 prints the marker's label before
\* the stripped output and gives UNKNOWN (or CRITICAL "No such file") by default.
C8_TextPriority ==
    TextRun => check = Some(IF variant = V051 THEN ClaimedTextResult(result)
                            ELSE Text02Result(result))

\* C8 witness: HEALTH_WARN comes first in the output, HEALTH_OK later, and the
\* result is OK
C8_Witness ==
    /\ TextRun
    /\ variant = V051
    /\ result = HEALTH_WARN \o <<WS>> \o HEALTH_OK
    /\ check = Some([msg |-> result, code |-> STATUS_OK])

\* a flag and its value as one token
Pair(flag, o) == IF IsNone(o) THEN <<>> ELSE << <<flag>>, Val(o) >>

ClaimedBase ==
    <<Effective(arguments.exe, CEPH_COMMAND)>>
      \o Pair("-c", Some(Effective(arguments.conf, CEPH_CONFIG)))
      \o Pair("-m", arguments.monaddress)
      \o Pair("--id", arguments.clientid)
      \o Pair("--name", arguments.name)
      \o Pair("--keyring", arguments.keyring)

\* a valid configuration: one kind selected, no option set to the empty string
ValidConfig ==
    /\ KindSelected
    /\ \A o \in {arguments.exe, arguments.conf, arguments.monaddress, arguments.clientid,
                 arguments.name, arguments.keyring} : IsNone(o) \/ Val(o) # <<>>

\* C9: for a valid configuration the built vector is the executable, then for
\* each global option that is set, in the order -c, -m, --id, --name,
\* --keyring, the flag and its value as one token, then the subcommand tokens;
\* for Status it ends with "status".
C9_VectorOrder ==
    (cephcmd # <<>> /\ ValidConfig)
      => /\ Len(cephcmd) >= Len(ClaimedBase)
         /\ SubSeq(cephcmd, 1, Len(ClaimedBase)) = ClaimedBase
         /\ "status" \in arguments.flags => cephcmd = ClaimedBase \o << <<"status">> >>

\* the check kinds of 0.5.1: a flag, and for --monhealth the monitor id
Kind(f, id) == [flag |-> f, id |-> id]

Kinds ==
    {Kind(f, <<>>) : f \in {"status", "health", "quorum", "df", "monstatus", "monstat",
                            "stat", "tree", "mdsstat"}}
      \cup {Kind("monhealth", Value("monhealth", n)) : n \in 0..MaxWords}

\* the trailing tokens the claim gives for each kind
ClaimedKindTokens(k) ==
    CASE k.flag = "status" -> << <<"status">> >>
      [] k.flag = "health" -> << <<"health">> >>
      [] k.flag = "quorum" -> << <<"quorum_status">> >>
      [] k.flag = "df" -> << <<"df">> >>
      [] k.flag = "monstatus" -> << <<"mon_status">> >>
      [] k.flag = "monstat" -> << <<"mon">>, <<"stat">> >>
      [] k.flag = "monhealth" -> << <<"ping">>, <<"mon.">> \o k.id >>
      [] k.flag = "stat" -> << <<"osd">>, <<"stat">> >>
      [] k.flag = "tree" -> << <<"osd">>, <<"tree">> >>
      [] k.flag = "mdsstat" -> << <<"mds">>, <<"stat">> >>

EndsWith(cmd, toks) ==
    Len(cmd) >= Len(toks) /\ SubSeq(cmd, Len(cmd) - Len(toks) + 1, Len(cmd)) = toks

SelectedKind ==
    LET f == CHOOSE x \in arguments.flags : TRUE
    IN  Kind(f, IF f = "monhealth" THEN Val(arguments.monid) ELSE <<>>)

\* C10: the vector built by 0.5.1 ends with exactly the tokens of the selected
\* kind (status, health, quorum_status, df, mon_status, mon stat,
\* ping mon.<id>, osd stat, osd tree, mds stat) and with those of no other kind.
C10_KindTokens ==
    (variant = V051 /\ cephcmd # <<>> /\ KindSelected)
      => /\ EndsWith(cephcmd, ClaimedKindTokens(SelectedKind))
         /\ \A k \in Kinds \ {SelectedKind} :
               ClaimedKindTokens(k) # ClaimedKindTokens(SelectedKind)
                 /\ ~EndsWith(cephcmd, ClaimedKindTokens(k))


\* a monitor-ping run of 0.5.1 whose output reached the classifier and did not
\* parse as JSON
MonPingUnparsed ==
    /\ variant = V051
    /\ Exited
    /\ ~IsNone(arguments.monid)
    /\ ToolSucceeded
    /\ result # <<>>
    /\ json_loads(result).exc # ""

C11_WitnessUnknown ==
    /\ MonPingUnparsed
    /\ ~Find(result, ObjectNotFound)
    /\ check = Some([msg |-> <<"Unknown error">>, code |-> STATUS_UNKNOWN])
    /\ exitcode = STATUS_UNKNOWN

\* the executable could not be spawned
SpawnFailed == ~IsNone(proc) /\ ~Val(proc).spawned

\* the subprocess ran and exited with a status other than 0
ToolFailed == ~IsNone(proc) /\ Val(proc).spawned /\ Val(proc).returncode # 0

\* C12: in both revisions, when the executable cannot be spawned the invocation
\* prints "Ceph executable not found - <path>", and when the subprocess exits
\* non-zero it prints a message carrying the command and the captured output;
\* in both cases it exits with code 2 and the output is never classified.
C12_RunFailuresAreCritical ==
    /\ (Exited /\ SpawnFailed)
         => /\ exitcode = STATUS_ERROR
            /\ Carries(Printed, <<"Ceph executable not found - ">>
                                  \o Effective(arguments.exe, CEPH_COMMAND))
            /\ IsNone(check)
    /\ (Exited /\ ToolFailed)
         => /\ exitcode = STATUS_ERROR
            /\ Carries(Printed, Repr(cephcmd))
            /\ \E output \in Merged(Val(proc)) : Carries(Printed, output)
            /\ IsNone(check)

\* a command line of 0.5.1 naming no subject group, and so no check flag
NoGroupGiven == variant = V051 /\ argv.group = "none"

C13_WitnessHelp ==
    /\ NoGroupGiven
    /\ Exited
    /\ nargs(argv) = 0
    /\ stdout = <<Help>>
    /\ exitcode = STATUS_ERROR
    /\ runs = 0

\* the health status of the report in result
ReportedStatus == SubSeq(result, 2, Len(result) - 1)

\* a monitor-ping run whose report has a non-empty health status that does not
\* split on the underscore into exactly two parts
MalformedStatus ==
    /\ MonPingParsed
    /\ ReportedStatus # <<>>
    /\ Len(SplitOn(ReportedStatus, US)) # 2

\* C14: in the monitor-ping path a non-empty health status without exactly one
\* underscore-delimited suffix (no underscore, or more than one) is classified
\* UNKNOWN, and no error is raised.
C14_MalformedStatusIsUnknown ==
    MalformedStatus
      => /\ raised = ""
         /\ ~IsNone(check)
         /\ Val(check).code = STATUS_UNKNOWN
         /\ exitcode = STATUS_UNKNOWN

\* the place of a step of main() in the order parse arguments, build command,
\* spawn subprocess, classify output, exit
StepIndex(p) ==
    CASE p = "start" -> 0
      [] p = "parsed" -> 1
      [] p = "built" -> 2
      [] p = "ran" -> 3
      [] p = "exit" -> 4

\* an invocation at or past the Output Interpreter has spawned one subprocess,
\* which has completed, and no result exists before that
SpawnedOnce ==
    /\ runs <= 1
    /\ (pc = "ran" \/ ~IsNone(check)) => (runs = 1 /\ ToolSucceeded)
    /\ runs = 0 => (IsNone(proc) /\ result = <<>>)

\* one step of an invocation: forward in the order, skipping only to the exit;
\* the subprocess is spawned once, from the built command; a result is made and
\* printed only by the classifier after the subprocess completed; nothing
\* happens after the exit
StepInOrder ==
    /\ pc # "exit"
    /\ pc' # pc
    /\ pc' = "exit" \/ StepIndex(pc') = StepIndex(pc) + 1
    /\ runs' # runs => (pc = "built" /\ runs = 0 /\ runs' = 1 /\ cephcmd # <<>>)
    /\ pc = "built" => runs' = runs + 1
    /\ check' # check => (pc = "ran" /\ ToolSucceeded /\ stdout' = <<Val(check').msg>>)
    /\ (pc' = "exit" /\ runs' = 0) => IsNone(check')

\* C15: in every invocation of 0.5.1 the steps occur in the order parse
\* arguments, build command, spawn subprocess, classify output, exit; an
\* invocation that reaches the Output Interpreter has spawned exactly one
\* subprocess, no result is printed before that subprocess has completed, and
\* after a failure no subprocess is spawned again.
C15_StepsInOrder == [][variant = V051 => (StepInOrder /\ SpawnedOnce')]_vars

\* C15 witness: every step taken, one subprocess spawned and completed, its
\* output classified and the result printed
C15_Witness ==
    /\ variant = V051
    /\ Exited
    /\ runs = 1
    /\ ToolSucceeded
    /\ ~IsNone(check)
    /\ stdout = <<Val(check).msg>>

\* C15, a failure reached: the subprocess exited non-zero, the invocation ended
\* with one spawn and no result
C15_WitnessFailure ==
    /\ variant = V051
    /\ Exited
    /\ ToolFailed
    /\ runs = 1
    /\ IsNone(check)

=============================================================================
